---- MODULE Spec2Model ----
(***************************************************************************)
(* globalizer - multiscope globalization services (globalizer.h).          *)
(*                                                                         *)
(* A Nexus is an access point to the single object of a type in a scope.   *)
(* The module covers the four operator() bodies of the header:             *)
(*   ModuleNexus (atomic build, _HAVE_ATOMIC_OPERATIONS),                  *)
(*   ModuleNexus (build without atomic operations),                        *)
(*   ThreadNexus and ProcessNexus,                                         *)
(* together with exists(), reset() and the CleanModuleNexus destructor.    *)
(* The header is compiled without PTHREAD_STRICT, so the unlocked first    *)
(* check of the mutex-guarded bodies is present.                           *)
(*                                                                         *)
(* ModuleNexusCommon::create and the ProcessNexusBase constructor are      *)
(* declared in the header but defined in globalizer.cpp; they are modelled *)
(* from the description of the protocol (claim by compare-and-swap,        *)
(* publish, re-poll; identifier -> store registry).                        *)
(***************************************************************************)
EXTENDS Integers, Sequences, FiniteSets, TLC

\* ------------------------------------------------------------------ bounds
NumThreads == 2
NumAddrs == 2
MaxResets == 1
MaxSync == 3
NumNexus == 2

\* --------------------------------------------------------------- constants
NULL == 0
Tag == 1

Threads == 1..NumThreads
Addrs == {2 * i : i \in 1..NumAddrs}
Nexi == 1..NumNexus
Identifiers == {"db-cache", "other-cache"}
Scopes == {"module", "module_nonatomic", "thread", "process"}

\* the tagged "in-progress" word a claimant puts into the slot
Marker == NULL + Tag

VARIABLES
    scope,        \* which nexus class the program instantiates
    coordinated,  \* do the callers keep reset() apart from every other call
    nexusState,   \* "live" | "destroyed" (destructor ran) | "crashed"
    pc,           \* position of each thread
    singleton,    \* per thread: result of new Type not yet stored
    self,         \* per thread: the ProcessNexus object operator() runs on
    ret,          \* per thread: outcome of its last operator() call since reset()
    existsResult, \* what the last exists() call returned
    pointer,      \* ModuleNexusCommon::pointer
    sync,         \* ModuleNexusCommon::sync
    mSingleton,   \* ModuleNexus::mSingleton (build without atomics)
    mLock,        \* ModuleNexus::mLock: 0 free, else the holding thread
    mSlot,        \* ThreadNexus::mSlot, one cell per thread
    identifier,   \* per ProcessNexus object: the string its constructor got
    mStore,       \* per ProcessNexus object: ProcessNexusBase::mStore
    stores,       \* the process-wide Stores
    heap,         \* per address: does it hold a constructed Type
    raw,          \* addresses whose constructor's writes the other threads
                  \* are not yet sure to see
    constructed,  \* log of completed constructions (new Type)
    deleteLog,    \* log of delete expressions that acted on a non-null word
    epoch         \* number of completed reset() calls

vars == <<scope, coordinated, raw, nexusState, pc, singleton, self, ret, existsResult, pointer,
          sync, mSingleton, mLock, mSlot, identifier, mStore, stores, heap,
          constructed, deleteLog, epoch>>

\* ----------------------------------------------------------------- helpers
NoRet == [st |-> "none", val |-> NULL, nexus |-> 0]
EmptyStore == [identifier |-> "", mObject |-> NULL, mLock |-> 0]

FreeAddrs == {a \in Addrs : ~heap[a]}

\* Addresses the allocator may hand out next: any free address that held an
\* instance before (reuse), or the lowest address never handed out (the
\* never-used addresses are interchangeable).
UsedAddrs == {constructed[i].addr : i \in DOMAIN constructed}
Allocatable ==
    {a \in FreeAddrs :
        a \in UsedAddrs \/ \A b \in FreeAddrs \ UsedAddrs : a <= b}

\* p & 0x1
LowBit(w) == w % 2

\* return *reinterpret_cast<Type *>(w) : the call ends with a reference
Return(t, w) ==
    /\ ret' = [ret EXCEPT ![t] = [st |-> "ok", val |-> w, nexus |-> self[t]]]
    /\ pc' = [pc EXCEPT ![t] = "idle"]

\* the constructor's failure leaves operator() as an exception
Throw(t) ==
    /\ ret' = [ret EXCEPT ![t] = [st |-> "threw", val |-> NULL, nexus |-> 0]]
    /\ pc' = [pc EXCEPT ![t] = "idle"]

\* new Type succeeding at address a, for the slot `owner`. The constructor's
\* writes are the constructing thread's own until it synchronizes.
New(t, a, owner) ==
    /\ a \in Allocatable
    /\ heap' = [heap EXCEPT ![a] = TRUE]
    /\ constructed' = Append(constructed,
                             [addr |-> a, epoch |-> epoch, owner |-> owner])
    /\ singleton' = [singleton EXCEPT ![t] = a]
    /\ raw' = raw \cup {a}

\* delete reinterpret_cast<Type *>(w). delete of a null pointer does nothing.
\* delete of a word that is no live Type is undefined: the process may abort
\* or carry on with whatever the allocator did.
Delete(w, by, next) ==
    IF w = NULL
    THEN /\ UNCHANGED <<heap, deleteLog>>
         /\ nexusState' = next
    ELSE /\ deleteLog' = Append(deleteLog,
                [word |-> w, by |-> by, live |-> (w \in Addrs /\ heap[w])])
         /\ heap' = [a \in Addrs |-> IF a = w THEN FALSE ELSE heap[a]]
         /\ IF w \in Addrs /\ heap[w]
            THEN nexusState' = next
            ELSE nexusState' \in {next, "crashed"}

Running == nexusState = "live"
ResetPcs == {"rs_delete", "rs_clear", "fb_rs_clear"}
NoResetRunning == \A u \in Threads : pc[u] \notin ResetPcs
Quiescent == \A u \in Threads : pc[u] = "idle"
\* a thread may start a call; coordinated callers start none during reset()
Idle(t) == Running /\ pc[t] = "idle" /\ (coordinated => NoResetRunning)
\* coordinated callers run reset() while no other call is under way; a
\* nexus has one reset() at a time in any case
MayReset(t) ==
    /\ Running /\ pc[t] = "idle" /\ NoResetRunning
    /\ coordinated => Quiescent
\* coordinated callers drop the references they hold when reset() completes
DropRefs == ret' = IF coordinated THEN [u \in Threads |-> NoRet] ELSE ret

\* ======================================================================
\* ModuleNexus, atomic build
\* ======================================================================

\* mutant: the comparison inverted
exists_Inverted == pointer = NULL

\* bool exists() const { return pointer != NULL; }
exists == pointer # NULL

Exists(t) ==
    /\ scope = "module" /\ Idle(t)
    /\ existsResult' = exists
    /\ UNCHANGED <<scope, coordinated, raw, nexusState, pc, singleton, self, ret, pointer, sync,
                   mSingleton, mLock, mSlot, identifier, mStore, stores, heap,
                   constructed, deleteLog, epoch>>

\* if (!p || (p & 0x1))
NeedsCreate(p) == p = NULL \/ LowBit(p) = Tag

\* the counter is capped: a call that will enter create() needs room in it
SyncRoom == sync + Cardinality({u \in Threads : pc[u] = "cr_sync"}) < MaxSync

\* mutant: the latched word is tested for NULL only, not for the tag bit
OpLatch_NoTagTest(t) ==
    /\ scope = "module" /\ Idle(t)
    /\ IF pointer = NULL
       THEN /\ SyncRoom
            /\ pc' = [pc EXCEPT ![t] = "cr_sync"]
            /\ UNCHANGED ret
       ELSE Return(t, pointer)
    /\ UNCHANGED <<scope, coordinated, raw, nexusState, singleton, self, existsResult, pointer,
                   sync, mSingleton, mLock, mSlot, identifier, mStore, stores,
                   heap, constructed, deleteLog, epoch>>

\* mutant: operator() enters create() whatever the latched word is
OpLatch_AlwaysCreate(t) ==
    /\ scope = "module" /\ Idle(t)
    /\ SyncRoom
    /\ pc' = [pc EXCEPT ![t] = "cr_sync"]
    /\ UNCHANGED <<scope, coordinated, raw, nexusState, singleton, self, ret, existsResult,
                   pointer, sync, mSingleton, mLock, mSlot, identifier, mStore,
                   stores, heap, constructed, deleteLog, epoch>>

\* AtomicWord p = pointer; if (!p || (p & 0x1)) p = create(make); return *p
OpLatch(t) ==
    /\ scope = "module" /\ Idle(t)
    /\ IF NeedsCreate(pointer)
       THEN /\ SyncRoom
            /\ pc' = [pc EXCEPT ![t] = "cr_sync"]
            /\ UNCHANGED ret
       ELSE Return(t, pointer)
    /\ UNCHANGED <<scope, coordinated, raw, nexusState, singleton, self, existsResult, pointer,
                   sync, mSingleton, mLock, mSlot, identifier, mStore, stores,
                   heap, constructed, deleteLog, epoch>>

\* create(): count the attempt (the UInt32 counter stays far below its width)
CreateSync(t) ==
    /\ Running /\ pc[t] = "cr_sync"
    /\ sync' = sync + 1
    /\ pc' = [pc EXCEPT ![t] = "cr_poll"]
    /\ UNCHANGED <<scope, coordinated, raw, nexusState, singleton, self, ret, existsResult,
                   pointer, mSingleton, mLock, mSlot, identifier, mStore,
                   stores, heap, constructed, deleteLog, epoch>>

\* create(): read the slot; a finished pointer is the result, an empty slot
\* is claimed, a tagged slot is polled again
CreatePoll(t) ==
    /\ Running /\ pc[t] = "cr_poll"
    /\ IF pointer = NULL
       THEN pc' = [pc EXCEPT ![t] = "cr_claim"] /\ UNCHANGED ret
       ELSE IF LowBit(pointer) = Tag
       THEN UNCHANGED <<pc, ret>>
       ELSE Return(t, pointer)
    /\ UNCHANGED <<scope, coordinated, raw, nexusState, singleton, self, existsResult, pointer,
                   sync, mSingleton, mLock, mSlot, identifier, mStore, stores,
                   heap, constructed, deleteLog, epoch>>

\* create(): compare-and-swap the slot from empty to the in-progress marker
CreateClaim(t) ==
    /\ Running /\ pc[t] = "cr_claim"
    /\ IF pointer = NULL
       THEN pointer' = Marker /\ pc' = [pc EXCEPT ![t] = "cr_make"]
       ELSE UNCHANGED pointer /\ pc' = [pc EXCEPT ![t] = "cr_poll"]
    /\ UNCHANGED <<scope, coordinated, raw, nexusState, singleton, self, ret, existsResult, sync,
                   mSingleton, mLock, mSlot, identifier, mStore, stores, heap,
                   constructed, deleteLog, epoch>>

\* static void *make() { return new Type; }  run by the claimant
CreateMake(t) ==
    /\ Running /\ pc[t] = "cr_make"
    /\ \/ /\ \E a \in Addrs : New(t, a, 0)
          /\ pc' = [pc EXCEPT ![t] = "cr_publish"]
          /\ UNCHANGED deleteLog
       \/ /\ pc' = [pc EXCEPT ![t] = "cr_unclaim"]
          /\ UNCHANGED <<singleton, heap, constructed, raw, deleteLog>>
    /\ UNCHANGED <<scope, coordinated, nexusState, self, ret, existsResult, pointer, sync,
                   mSingleton, mLock, mSlot, identifier, mStore, stores, epoch>>

\* create(): publish the instance, ordered after its construction;
\* operator() returns it
CreatePublish(t) ==
    /\ Running /\ pc[t] = "cr_publish"
    /\ pointer' = singleton[t]
    /\ raw' = raw \ {singleton[t]}
    /\ singleton' = [singleton EXCEPT ![t] = NULL]
    /\ Return(t, singleton[t])
    /\ UNCHANGED <<scope, coordinated, nexusState, self, existsResult, sync, mSingleton,
                   mLock, mSlot, identifier, mStore, stores, heap, constructed,
                   deleteLog, epoch>>

\* mutant: the failure is passed on with the marker left in the slot
CreateUnclaim_Wedge(t) ==
    /\ Running /\ pc[t] = "cr_unclaim"
    /\ Throw(t)
    /\ UNCHANGED <<scope, coordinated, raw, nexusState, singleton, self, existsResult, pointer,
                   sync, mSingleton, mLock, mSlot, identifier, mStore, stores,
                   heap, constructed, deleteLog, epoch>>

\* create(): make() failed; give the claim back and pass the failure on
CreateUnclaim(t) ==
    /\ Running /\ pc[t] = "cr_unclaim"
    /\ pointer' = NULL
    /\ Throw(t)
    /\ UNCHANGED <<scope, coordinated, raw, nexusState, singleton, self, existsResult, sync,
                   mSingleton, mLock, mSlot, identifier, mStore, stores, heap,
                   constructed, deleteLog, epoch>>

\* mutant: reset() tests the slot for NULL only, not for the tag bit
ResetTest_NoTagTest(t) ==
    /\ scope = "module" /\ MayReset(t) /\ epoch < MaxResets
    /\ IF pointer # NULL
       THEN pc' = [pc EXCEPT ![t] = "rs_delete"] /\ UNCHANGED <<epoch, ret>>
       ELSE /\ epoch' = epoch + 1
            /\ DropRefs
            /\ UNCHANGED pc
    /\ UNCHANGED <<scope, coordinated, raw, nexusState, singleton, self,
                   existsResult, pointer, sync, mSingleton, mLock, mSlot,
                   identifier, mStore, stores, heap, constructed, deleteLog>>

\* reset(): if (pointer && !(pointer & 0x1))
\* The caller keeps reset() apart from every other call on the nexus.
ResetTest(t) ==
    /\ scope = "module" /\ MayReset(t) /\ epoch < MaxResets
    /\ IF pointer # NULL /\ ~(LowBit(pointer) = Tag)
       THEN pc' = [pc EXCEPT ![t] = "rs_delete"] /\ UNCHANGED <<epoch, ret>>
       ELSE /\ epoch' = epoch + 1
            /\ DropRefs
            /\ UNCHANGED pc
    /\ UNCHANGED <<scope, coordinated, raw, nexusState, singleton, self, existsResult,
                   pointer, sync, mSingleton, mLock, mSlot, identifier, mStore,
                   stores, heap, constructed, deleteLog>>

\* mutant: the instance is not deleted
ResetDelete_Leak(t) ==
    /\ Running /\ pc[t] = "rs_delete"
    /\ pc' = [pc EXCEPT ![t] = "rs_clear"]
    /\ UNCHANGED <<scope, coordinated, raw, nexusState, singleton, self, ret,
                   existsResult, pointer, sync, mSingleton, mLock, mSlot,
                   identifier, mStore, stores, heap, constructed, deleteLog,
                   epoch>>

\* reset(): delete reinterpret_cast<Type *>(pointer);
ResetDelete(t) ==
    /\ Running /\ pc[t] = "rs_delete"
    /\ Delete(pointer, "reset", "live")
    /\ pc' = [pc EXCEPT ![t] = "rs_clear"]
    /\ UNCHANGED <<scope, coordinated, raw, singleton, self, ret, existsResult, pointer, sync,
                   mSingleton, mLock, mSlot, identifier, mStore, stores,
                   constructed, epoch>>

\* mutant: the instance is deleted but the slot keeps its pointer
ResetClear_NoClear(t) ==
    /\ Running /\ pc[t] = "rs_clear"
    /\ epoch' = epoch + 1
    /\ DropRefs
    /\ pc' = [pc EXCEPT ![t] = "idle"]
    /\ UNCHANGED <<scope, coordinated, raw, nexusState, singleton, self, existsResult, pointer,
                   sync, mSingleton, mLock, mSlot, identifier, mStore, stores,
                   heap, constructed, deleteLog>>

\* reset(): pointer = 0;
ResetClear(t) ==
    /\ Running /\ pc[t] = "rs_clear"
    /\ pointer' = 0
    /\ epoch' = epoch + 1
    /\ DropRefs
    /\ pc' = [pc EXCEPT ![t] = "idle"]
    /\ UNCHANGED <<scope, coordinated, raw, nexusState, singleton, self, existsResult, sync,
                   mSingleton, mLock, mSlot, identifier, mStore, stores, heap,
                   constructed, deleteLog>>

\* ~CleanModuleNexus(): delete reinterpret_cast<Type *>(pointer);
\* Static destruction is not ordered against threads still inside operator().
Teardown ==
    /\ scope = "module" /\ Running /\ NoResetRunning
    /\ Delete(pointer, "teardown", "destroyed")
    /\ UNCHANGED <<scope, coordinated, raw, pc, singleton, self, ret, existsResult, pointer, sync,
                   mSingleton, mLock, mSlot, identifier, mStore, stores,
                   constructed, epoch>>

ModuleNext ==
    \/ \E t \in Threads : Exists(t)
    \/ \E t \in Threads : OpLatch(t)
    \/ \E t \in Threads : CreateSync(t)
    \/ \E t \in Threads : CreatePoll(t)
    \/ \E t \in Threads : CreateClaim(t)
    \/ \E t \in Threads : CreateMake(t)
    \/ \E t \in Threads : CreatePublish(t)
    \/ \E t \in Threads : CreateUnclaim(t)
    \/ \E t \in Threads : ResetTest(t)
    \/ \E t \in Threads : ResetDelete(t)
    \/ \E t \in Threads : ResetClear(t)
    \/ Teardown

\* ======================================================================
\* ModuleNexus, build without atomic operations
\* ======================================================================

\* if (mSingleton) return *mSingleton;   (unlocked)
FbCheck(t) ==
    /\ scope = "module_nonatomic" /\ Idle(t)
    /\ IF mSingleton # NULL
       THEN Return(t, mSingleton)
       ELSE pc' = [pc EXCEPT ![t] = "fb_lock"] /\ UNCHANGED ret
    /\ UNCHANGED <<scope, coordinated, raw, nexusState, singleton, self, existsResult, pointer,
                   sync, mSingleton, mLock, mSlot, identifier, mStore, stores,
                   heap, constructed, deleteLog, epoch>>

\* StLock<Mutex> _(mLock);
FbLock(t) ==
    /\ Running /\ pc[t] = "fb_lock"
    /\ mLock = 0
    /\ mLock' = t
    /\ pc' = [pc EXCEPT ![t] = "fb_recheck"]
    /\ UNCHANGED <<scope, coordinated, raw, nexusState, singleton, self, ret, existsResult,
                   pointer, sync, mSingleton, mSlot, identifier, mStore, stores,
                   heap, constructed, deleteLog, epoch>>

\* mutant: no second test under the lock
FbRecheck_NoRecheck(t) ==
    /\ Running /\ pc[t] = "fb_recheck"
    /\ \/ /\ \E a \in Addrs : New(t, a, 0)
          /\ pc' = [pc EXCEPT ![t] = "fb_store"]
          /\ UNCHANGED <<ret, mLock>>
       \/ /\ mLock' = 0
          /\ Throw(t)
          /\ UNCHANGED <<singleton, heap, constructed, raw>>
    /\ UNCHANGED <<scope, coordinated, nexusState, self, existsResult, pointer,
                   sync, mSingleton, mSlot, identifier, mStore, stores,
                   deleteLog, epoch>>

\* if (mSingleton == NULL) mSingleton = new Type;   the test and new Type
\* run under mLock; on failure the StLock destructor releases mLock while
\* the exception unwinds
FbRecheck(t) ==
    /\ Running /\ pc[t] = "fb_recheck"
    /\ IF mSingleton = NULL
       THEN \/ /\ \E a \in Addrs : New(t, a, 0)
               /\ pc' = [pc EXCEPT ![t] = "fb_store"]
               /\ UNCHANGED <<ret, mLock>>
            \/ /\ mLock' = 0
               /\ Throw(t)
               /\ UNCHANGED <<singleton, heap, constructed, raw>>
       ELSE /\ pc' = [pc EXCEPT ![t] = "fb_return"]
            /\ UNCHANGED <<ret, mLock, singleton, heap, constructed, raw>>
    /\ UNCHANGED <<scope, coordinated, nexusState, self, existsResult, pointer, sync,
                   mSingleton, mSlot, identifier, mStore, stores, deleteLog,
                   epoch>>

\* mSingleton = (the new Type)   a plain store, read by other threads
\* without the lock: nothing orders it after the constructor's writes, which
\* the other threads see by now or only once mLock is released
FbStore(t) ==
    /\ Running /\ pc[t] = "fb_store"
    /\ mSingleton' = singleton[t]
    /\ raw' \in {raw, raw \ {singleton[t]}}
    /\ pc' = [pc EXCEPT ![t] = "fb_return"]
    /\ UNCHANGED <<scope, coordinated, nexusState, singleton, self, ret, existsResult, pointer, sync,
                   mLock, mSlot, identifier, mStore, stores, heap, constructed,
                   deleteLog, epoch>>

\* return *mSingleton;  and the StLock destructor releases mLock
FbReturn(t) ==
    /\ Running /\ pc[t] = "fb_return"
    /\ Return(t, mSingleton)
    /\ mLock' = 0
    /\ raw' = raw \ {singleton[t]}
    /\ singleton' = [singleton EXCEPT ![t] = NULL]
    /\ UNCHANGED <<scope, coordinated, nexusState, self, existsResult, pointer,
                   sync, mSingleton, mSlot, identifier, mStore, stores, heap,
                   constructed, deleteLog, epoch>>

\* reset(): delete mSingleton;
FbResetDelete(t) ==
    /\ scope = "module_nonatomic" /\ MayReset(t) /\ epoch < MaxResets
    /\ Delete(mSingleton, "reset", "live")
    /\ pc' = [pc EXCEPT ![t] = "fb_rs_clear"]
    /\ UNCHANGED <<scope, coordinated, raw, singleton, self, ret, existsResult, pointer, sync,
                   mSingleton, mLock, mSlot, identifier, mStore, stores,
                   constructed, epoch>>

\* mutant: the instance is deleted but mSingleton keeps its pointer
FbResetClear_NoClear(t) ==
    /\ Running /\ pc[t] = "fb_rs_clear"
    /\ epoch' = epoch + 1
    /\ DropRefs
    /\ pc' = [pc EXCEPT ![t] = "idle"]
    /\ UNCHANGED <<scope, coordinated, raw, nexusState, singleton, self,
                   existsResult, pointer, sync, mSingleton, mLock, mSlot,
                   identifier, mStore, stores, heap, constructed, deleteLog>>

\* reset(): mSingleton = NULL;
FbResetClear(t) ==
    /\ Running /\ pc[t] = "fb_rs_clear"
    /\ mSingleton' = NULL
    /\ epoch' = epoch + 1
    /\ DropRefs
    /\ pc' = [pc EXCEPT ![t] = "idle"]
    /\ UNCHANGED <<scope, coordinated, raw, nexusState, singleton, self, existsResult,
                   pointer, sync, mLock, mSlot, identifier, mStore, stores, heap,
                   constructed, deleteLog>>

\* ~CleanModuleNexus(): delete mSingleton;
FbTeardown ==
    /\ scope = "module_nonatomic" /\ Running /\ NoResetRunning
    /\ Delete(mSingleton, "teardown", "destroyed")
    /\ UNCHANGED <<scope, coordinated, raw, pc, singleton, self, ret, existsResult, pointer, sync,
                   mSingleton, mLock, mSlot, identifier, mStore, stores,
                   constructed, epoch>>

FallbackNext ==
    \/ \E t \in Threads : FbCheck(t)
    \/ \E t \in Threads : FbLock(t)
    \/ \E t \in Threads : FbRecheck(t)
    \/ \E t \in Threads : FbStore(t)
    \/ \E t \in Threads : FbReturn(t)
    \/ \E t \in Threads : FbResetDelete(t)
    \/ \E t \in Threads : FbResetClear(t)
    \/ FbTeardown

\* ======================================================================
\* ThreadNexus
\* ======================================================================

\* mutant: the cached pointer is not looked at
ThCheck_NoCache(t) ==
    /\ scope = "thread" /\ Idle(t)
    /\ pc' = [pc EXCEPT ![t] = "th_new"]
    /\ UNCHANGED <<scope, coordinated, raw, nexusState, singleton, self, ret, existsResult,
                   pointer, sync, mSingleton, mLock, mSlot, identifier, mStore,
                   stores, heap, constructed, deleteLog, epoch>>

\* if (Type *p = mSlot) return *p;     mSlot is the calling thread's cell
ThCheck(t) ==
    /\ scope = "thread" /\ Idle(t)
    /\ IF mSlot[t] # NULL
       THEN Return(t, mSlot[t])
       ELSE pc' = [pc EXCEPT ![t] = "th_new"] /\ UNCHANGED ret
    /\ UNCHANGED <<scope, coordinated, raw, nexusState, singleton, self, existsResult, pointer,
                   sync, mSingleton, mLock, mSlot, identifier, mStore, stores,
                   heap, constructed, deleteLog, epoch>>

\* new Type
ThNew(t) ==
    /\ Running /\ pc[t] = "th_new"
    /\ \/ /\ \E a \in Addrs : New(t, a, t)
          /\ pc' = [pc EXCEPT ![t] = "th_store"]
          /\ UNCHANGED ret
       \/ /\ Throw(t)
          /\ UNCHANGED <<singleton, heap, constructed, raw>>
    /\ UNCHANGED <<scope, coordinated, nexusState, self, existsResult, pointer, sync,
                   mSingleton, mLock, mSlot, identifier, mStore, stores,
                   deleteLog, epoch>>

\* mSlot = (the new Type); return *mSlot;
ThStore(t) ==
    /\ Running /\ pc[t] = "th_store"
    /\ mSlot' = [mSlot EXCEPT ![t] = singleton[t]]
    /\ raw' = raw \ {singleton[t]}
    /\ singleton' = [singleton EXCEPT ![t] = NULL]
    /\ Return(t, singleton[t])
    /\ UNCHANGED <<scope, coordinated, nexusState, self, existsResult, pointer, sync,
                   mSingleton, mLock, identifier, mStore, stores, heap,
                   constructed, deleteLog, epoch>>

ThreadNext ==
    \/ \E t \in Threads : ThCheck(t)
    \/ \E t \in Threads : ThNew(t)
    \/ \E t \in Threads : ThStore(t)

\* ======================================================================
\* ProcessNexus
\* ======================================================================

\* the registry behind ProcessNexusBase(identifier): the Store of this
\* identifier's content, or the first unused Store if it has none yet
Lookup(id) ==
    IF \E s \in Nexi : stores[s].identifier = id
    THEN CHOOSE s \in Nexi : stores[s].identifier = id
    ELSE CHOOSE s \in Nexi :
            /\ stores[s].identifier = ""
            /\ \A r \in Nexi : stores[r].identifier = "" => s <= r

\* ProcessNexus(const char *identifier) : ProcessNexusBase(identifier) { }
\* The objects are numbered in the order of their construction.
ConstructNexus(t, n, id) ==
    /\ scope = "process" /\ Idle(t)
    /\ mStore[n] = 0
    /\ \A m \in Nexi : m < n => mStore[m] # 0
    /\ identifier' = [identifier EXCEPT ![n] = id]
    /\ mStore' = [mStore EXCEPT ![n] = Lookup(id)]
    /\ stores' = [stores EXCEPT ![Lookup(id)].identifier = id]
    /\ UNCHANGED <<scope, coordinated, raw, nexusState, pc, singleton, self, ret, existsResult,
                   pointer, sync, mSingleton, mLock, mSlot, heap, constructed,
                   deleteLog, epoch>>

\* mutant: each ProcessNexus object keeps its instance in a Store of its own
StoreOf_Own(n) == n

\* mStore-> : the Store a ProcessNexus object works on
StoreOf(n) == mStore[n]

\* if (mStore->mObject) return *reinterpret_cast<Type *>(mStore->mObject);
PnCheck(t, n) ==
    /\ scope = "process" /\ Idle(t)
    /\ mStore[n] # 0
    /\ IF stores[StoreOf(n)].mObject # NULL
       THEN /\ ret' = [ret EXCEPT ![t] =
                        [st |-> "ok", val |-> stores[StoreOf(n)].mObject,
                         nexus |-> n]]
            /\ UNCHANGED <<pc, self>>
       ELSE /\ pc' = [pc EXCEPT ![t] = "pn_lock"]
            /\ self' = [self EXCEPT ![t] = n]
            /\ UNCHANGED ret
    /\ UNCHANGED <<scope, coordinated, raw, nexusState, singleton, existsResult, pointer, sync,
                   mSingleton, mLock, mSlot, identifier, mStore, stores, heap,
                   constructed, deleteLog, epoch>>

\* mutant: the lock is taken whether it is free or not
PnLock_Barge(t) ==
    /\ Running /\ pc[t] = "pn_lock"
    /\ stores' = [stores EXCEPT ![StoreOf(self[t])].mLock = t]
    /\ pc' = [pc EXCEPT ![t] = "pn_recheck"]
    /\ UNCHANGED <<scope, coordinated, raw, nexusState, singleton, self, ret,
                   existsResult, pointer, sync, mSingleton, mLock, mSlot,
                   identifier, mStore, heap, constructed, deleteLog, epoch>>

\* StLock<Mutex> _(mStore->mLock);
PnLock(t) ==
    /\ Running /\ pc[t] = "pn_lock"
    /\ stores[StoreOf(self[t])].mLock = 0
    /\ stores' = [stores EXCEPT ![StoreOf(self[t])].mLock = t]
    /\ pc' = [pc EXCEPT ![t] = "pn_recheck"]
    /\ UNCHANGED <<scope, coordinated, raw, nexusState, singleton, self, ret, existsResult,
                   pointer, sync, mSingleton, mLock, mSlot, identifier, mStore,
                   heap, constructed, deleteLog, epoch>>

\* mutant: the failure leaves operator() with the lock still held
PnRecheck_ThrowKeepsLock(t) ==
    /\ Running /\ pc[t] = "pn_recheck"
    /\ IF stores[StoreOf(self[t])].mObject = NULL
       THEN \/ /\ \E a \in Addrs : New(t, a, StoreOf(self[t]))
               /\ pc' = [pc EXCEPT ![t] = "pn_store"]
               /\ UNCHANGED <<ret, stores, self>>
            \/ /\ Throw(t)
               /\ self' = [self EXCEPT ![t] = 0]
               /\ UNCHANGED <<stores, singleton, heap, constructed, raw>>
       ELSE /\ pc' = [pc EXCEPT ![t] = "pn_return"]
            /\ UNCHANGED <<ret, stores, self, singleton, heap, constructed, raw>>
    /\ UNCHANGED <<scope, coordinated, nexusState, existsResult, pointer, sync,
                   mSingleton, mLock, mSlot, identifier, mStore, deleteLog,
                   epoch>>

\* mutant: the lock is still held when operator() has returned
PnReturn_KeepsLock(t) ==
    /\ Running /\ pc[t] = "pn_return"
    /\ Return(t, stores[StoreOf(self[t])].mObject)
    /\ raw' = raw \ {singleton[t]}
    /\ self' = [self EXCEPT ![t] = 0]
    /\ singleton' = [singleton EXCEPT ![t] = NULL]
    /\ UNCHANGED <<scope, coordinated, nexusState, existsResult, pointer,
                   sync, mSingleton, mLock, mSlot, identifier, mStore, stores,
                   heap, constructed, deleteLog, epoch>>

\* mutant: no second test under the lock
PnRecheck_NoRecheck(t) ==
    /\ Running /\ pc[t] = "pn_recheck"
    /\ \/ /\ \E a \in Addrs : New(t, a, StoreOf(self[t]))
          /\ pc' = [pc EXCEPT ![t] = "pn_store"]
          /\ UNCHANGED <<ret, stores, self>>
       \/ /\ stores' = [stores EXCEPT ![StoreOf(self[t])].mLock = 0]
          /\ Throw(t)
          /\ self' = [self EXCEPT ![t] = 0]
          /\ UNCHANGED <<singleton, heap, constructed, raw>>
    /\ UNCHANGED <<scope, coordinated, nexusState, existsResult, pointer, sync,
                   mSingleton, mLock, mSlot, identifier, mStore, deleteLog,
                   epoch>>

\* if (mStore->mObject == NULL) mStore->mObject = new Type;   the test and
\* new Type run under the lock; on failure the StLock destructor releases
\* the lock while the exception unwinds
PnRecheck(t) ==
    /\ Running /\ pc[t] = "pn_recheck"
    /\ IF stores[StoreOf(self[t])].mObject = NULL
       THEN \/ /\ \E a \in Addrs : New(t, a, StoreOf(self[t]))
               /\ pc' = [pc EXCEPT ![t] = "pn_store"]
               /\ UNCHANGED <<ret, stores, self>>
            \/ /\ stores' = [stores EXCEPT ![StoreOf(self[t])].mLock = 0]
               /\ Throw(t)
               /\ self' = [self EXCEPT ![t] = 0]
               /\ UNCHANGED <<singleton, heap, constructed, raw>>
       ELSE /\ pc' = [pc EXCEPT ![t] = "pn_return"]
            /\ UNCHANGED <<ret, stores, self, singleton, heap, constructed, raw>>
    /\ UNCHANGED <<scope, coordinated, nexusState, existsResult, pointer, sync,
                   mSingleton, mLock, mSlot, identifier, mStore, deleteLog,
                   epoch>>

\* mStore->mObject = (the new Type)   a plain store, read by other threads
\* without the lock: nothing orders it after the constructor's writes, which
\* the other threads see by now or only once the lock is released
PnStore(t) ==
    /\ Running /\ pc[t] = "pn_store"
    /\ stores' = [stores EXCEPT ![StoreOf(self[t])].mObject = singleton[t]]
    /\ raw' \in {raw, raw \ {singleton[t]}}
    /\ pc' = [pc EXCEPT ![t] = "pn_return"]
    /\ UNCHANGED <<scope, coordinated, nexusState, singleton, self, ret, existsResult, pointer, sync,
                   mSingleton, mLock, mSlot, identifier, mStore, heap,
                   constructed, deleteLog, epoch>>

\* return *reinterpret_cast<Type *>(mStore->mObject);  and the lock is released
PnReturn(t) ==
    /\ Running /\ pc[t] = "pn_return"
    /\ Return(t, stores[StoreOf(self[t])].mObject)
    /\ stores' = [stores EXCEPT ![StoreOf(self[t])].mLock = 0]
    /\ raw' = raw \ {singleton[t]}
    /\ self' = [self EXCEPT ![t] = 0]
    /\ singleton' = [singleton EXCEPT ![t] = NULL]
    /\ UNCHANGED <<scope, coordinated, nexusState, existsResult, pointer,
                   sync, mSingleton, mLock, mSlot, identifier, mStore, heap,
                   constructed, deleteLog, epoch>>

ProcessNext ==
    \/ \E t \in Threads, n \in Nexi, id \in Identifiers : ConstructNexus(t, n, id)
    \/ \E t \in Threads, n \in Nexi : PnCheck(t, n)
    \/ \E t \in Threads : PnLock(t)
    \/ \E t \in Threads : PnRecheck(t)
    \/ \E t \in Threads : PnStore(t)
    \/ \E t \in Threads : PnReturn(t)

\* ======================================================================
\* specification
\* ======================================================================
Init ==
    /\ scope \in Scopes
    /\ coordinated = TRUE
    /\ raw = {}
    /\ nexusState = "live"
    /\ pc = [t \in Threads |-> "idle"]
    /\ singleton = [t \in Threads |-> NULL]
    /\ self = [t \in Threads |-> 0]
    /\ ret = [t \in Threads |-> NoRet]
    /\ existsResult = FALSE
    /\ pointer = 0
    /\ sync = 0
    /\ mSingleton = NULL
    /\ mLock = 0
    /\ mSlot = [t \in Threads |-> NULL]
    /\ identifier = [n \in Nexi |-> ""]
    /\ mStore = [n \in Nexi |-> 0]
    /\ stores = [s \in Nexi |-> EmptyStore]
    /\ heap = [a \in Addrs |-> FALSE]
    /\ constructed = <<>>
    /\ deleteLog = <<>>
    /\ epoch = 0

Next == ModuleNext \/ FallbackNext \/ ThreadNext \/ ProcessNext

Spec == Init /\ [][Next]_vars

\* What a thread that is inside operator() does next without waiting for
\* anyone: every step of operator() but the acquisition of a mutex.
Step(t) ==
    \/ CreateSync(t) \/ CreatePoll(t) \/ CreateClaim(t) \/ CreateMake(t)
    \/ CreatePublish(t) \/ CreateUnclaim(t)
    \/ FbRecheck(t) \/ FbStore(t) \/ FbReturn(t)
    \/ ThNew(t) \/ ThStore(t)
    \/ PnRecheck(t) \/ PnStore(t) \/ PnReturn(t)

\* The calls of operator() of the four nexus classes, on a nexus that is
\* neither reset nor torn down.
AccessNext ==
    \/ \E t \in Threads : OpLatch(t) \/ FbCheck(t) \/ FbLock(t) \/ ThCheck(t)
    \/ \E t \in Threads, n \in Nexi, id \in Identifiers : ConstructNexus(t, n, id)
    \/ \E t \in Threads, n \in Nexi : PnCheck(t, n)
    \/ \E t \in Threads : PnLock(t)
    \/ \E t \in Threads : Step(t)

\* Fair scheduling: a thread inside a call keeps running (the constructor
\* it runs ends, with an instance or with a failure), and a thread waiting
\* for a mutex that is released again and again gets it.
FairSpec ==
    /\ Init /\ [][AccessNext]_vars
    /\ \A t \in Threads :
          /\ WF_vars(Step(t))
          /\ SF_vars(FbLock(t))
          /\ SF_vars(PnLock(t))

\* The atomic build with callers that do not keep reset() apart from
\* operator(): reset() may run while calls are racing on the slot.
RaceInit ==
    /\ scope = "module"
    /\ coordinated = FALSE
    /\ raw = {}
    /\ nexusState = "live"
    /\ pc = [t \in Threads |-> "idle"]
    /\ singleton = [t \in Threads |-> NULL]
    /\ self = [t \in Threads |-> 0]
    /\ ret = [t \in Threads |-> NoRet]
    /\ existsResult = FALSE
    /\ pointer = 0
    /\ sync = 0
    /\ mSingleton = NULL
    /\ mLock = 0
    /\ mSlot = [t \in Threads |-> NULL]
    /\ identifier = [n \in Nexi |-> ""]
    /\ mStore = [n \in Nexi |-> 0]
    /\ stores = [s \in Nexi |-> EmptyStore]
    /\ heap = [a \in Addrs |-> FALSE]
    /\ constructed = <<>>
    /\ deleteLog = <<>>
    /\ epoch = 0

RaceSpec == RaceInit /\ [][ModuleNext]_vars

\* ======================================================================
\* properties
\* ======================================================================
ModuleScopes == {"module", "module_nonatomic"}
Slot == IF scope = "module" THEN pointer ELSE mSingleton
Made(e) == Cardinality({i \in DOMAIN constructed : constructed[i].epoch = e})
MadeFor(o) == Cardinality({i \in DOMAIN constructed : constructed[i].owner = o})
Entries(a) == {i \in DOMAIN constructed : constructed[i].addr = a}
Born(a) ==
    IF Entries(a) = {} THEN -1
    ELSE constructed[CHOOSE i \in Entries(a) : \A j \in Entries(a) : j <= i].epoch
OwnerOf(a) ==
    IF Entries(a) = {} THEN -1
    ELSE constructed[CHOOSE i \in Entries(a) : \A j \in Entries(a) : j <= i].owner
Returned(t) == ret[t].st = "ok"
InFactory == {t \in Threads : pc[t] = "cr_make"}
Claimants == {t \in Threads : pc[t] \in {"cr_make", "cr_publish", "cr_unclaim"}}

\* C1: module scope, both builds: while threads race on an empty slot at
\* most one factory run is under way or has produced an instance in the
\* current epoch, and every call that returns hands out the one instance
\* constructed in this epoch (never the marker, never a second instance).
C1_ModuleExactlyOnce ==
    scope \in ModuleScopes =>
        /\ Made(epoch) + Cardinality(InFactory) <= 1
        /\ \A t \in Threads : Returned(t) =>
              /\ Made(epoch) = 1
              /\ ret[t].val \in Addrs
              /\ Born(ret[t].val) = epoch

\* every thread went through create() and all of them returned
C1_Witness ==
    /\ scope = "module" /\ epoch = 0
    /\ sync = NumThreads
    /\ \A t \in Threads : Returned(t)

\* C2: process scope: per Store at most one instance is ever constructed,
\* and every call that returns hands out exactly the instance of the Store
\* of the nexus object it was made on.
C2_ProcessExactlyOnce ==
    scope = "process" =>
        /\ \A s \in Nexi : MadeFor(s) <= 1
        /\ \A t \in Threads : Returned(t) =>
              /\ ret[t].val \in Addrs
              /\ ret[t].val = stores[mStore[ret[t].nexus]].mObject
              /\ OwnerOf(ret[t].val) = mStore[ret[t].nexus]

\* a thread that lost the race holds the lock after the re-check found the
\* instance the winner has returned
C2_Witness ==
    /\ scope = "process"
    /\ \E t, u \in Threads :
          /\ pc[u] = "pn_return" /\ singleton[u] = NULL
          /\ Returned(t)
          /\ mStore[ret[t].nexus] = mStore[self[u]]

\* C3: process scope: two nexus objects resolve to the same Store exactly
\* when their identifier strings are equal, and two calls return the same
\* instance exactly when the identifiers of their nexus objects are equal.
C3_SameIdentifierSameInstance ==
    scope = "process" =>
        /\ \A n, m \in Nexi : (mStore[n] # 0 /\ mStore[m] # 0) =>
              ((identifier[n] = identifier[m]) <=> (mStore[n] = mStore[m]))
        /\ \A t, u \in Threads : (Returned(t) /\ Returned(u)) =>
              ((identifier[ret[t].nexus] = identifier[ret[u].nexus])
                  <=> (ret[t].val = ret[u].val))

\* two different nexus objects with the same identifier have both returned
C3_Witness ==
    /\ scope = "process"
    /\ \E t, u \in Threads :
          /\ Returned(t) /\ Returned(u)
          /\ ret[t].nexus # ret[u].nexus
          /\ identifier[ret[t].nexus] = identifier[ret[u].nexus]

\* C4: thread scope: at most one instance is constructed per thread; a call
\* that returns hands out the calling thread's own instance, which is the
\* one in its cell (so every call of that thread returns the same one), and
\* different threads get different instances.
C4_ThreadPerThread ==
    scope = "thread" =>
        /\ \A t \in Threads : MadeFor(t) <= 1
        /\ \A t \in Threads : Returned(t) =>
              /\ MadeFor(t) = 1
              /\ ret[t].val \in Addrs
              /\ ret[t].val = mSlot[t]
              /\ OwnerOf(ret[t].val) = t
        /\ \A t, u \in Threads :
              (t # u /\ Returned(t) /\ Returned(u)) => ret[t].val # ret[u].val

\* every thread has its instance
C4_Witness ==
    /\ scope = "thread"
    /\ \A t \in Threads : Returned(t)
    /\ Len(constructed) = NumThreads

\* C5: module scope: a call of exists() answers true exactly when the slot
\* holds a finished pointer (non-null, tag bit clear); it answers false for
\* the empty slot and for the in-progress marker.
C5_ExistsOnlyFinished ==
    [][\A t \in Threads :
          Exists(t) => (existsResult' = (pointer # NULL /\ LowBit(pointer) # Tag))]_vars

\* C6: module scope: while some call of operator() has returned since the
\* last reset(), exists() is true.
C6_ExistsAfterAccess ==
    scope = "module" => ((\E t \in Threads : Returned(t)) => exists)

\* a call has returned and exists() has answered true
C6_Witness ==
    /\ scope = "module"
    /\ \E t \in Threads : Returned(t)
    /\ existsResult = TRUE
    /\ pointer \in Addrs

\* C7: module scope, reset() kept apart from other calls: in every epoch at
\* most one instance is constructed, no instance of an earlier epoch is
\* alive, and every call that returns hands out the instance constructed in
\* the current epoch, alive as long as no reset() or teardown has begun.
C7_NewInstancePerEpoch ==
    scope \in ModuleScopes =>
        /\ \A e \in 0..epoch : Made(e) <= 1
        /\ \A a \in Addrs : heap[a] => Born(a) = epoch
        /\ \A t \in Threads : Returned(t) =>
              /\ ret[t].val \in Addrs
              /\ Born(ret[t].val) = epoch
              /\ (Running /\ NoResetRunning) => heap[ret[t].val]

\* after a reset every thread has returned the second instance
C7_Witness ==
    /\ scope = "module" /\ epoch = 1
    /\ Len(constructed) = 2
    /\ \A t \in Threads : Returned(t)

\* C8: module scope: the slot holds the marker only while its claimant is
\* still inside create() (so a marker is never left behind), and a call that
\* ends with the constructor's failure leaves the slot empty (atomic build),
\* respectively the lock free and mSingleton NULL (build without atomics).
C8_FailureLeavesRetryable ==
    /\ [](scope = "module" /\ Running =>
             /\ Cardinality(Claimants) <= 1
             /\ (LowBit(pointer) = Tag <=> Claimants # {}))
    /\ [][\A t \in Threads :
             (pc[t] # "idle" /\ pc'[t] = "idle" /\ ret'[t].st = "threw") =>
                 /\ scope = "module" => pointer' = NULL
                 /\ scope = "module_nonatomic" => (mLock' = 0 /\ mSingleton' = NULL)]_vars

\* a call failed and, in the same epoch, a later call constructed the instance
C8_Witness ==
    /\ scope = "module"
    /\ \E t, u \in Threads :
          /\ ret[t].st = "threw"
          /\ Returned(u) /\ ret[u].val = pointer /\ pointer \in Addrs

\* C9: a call that reads a finished pointer on its first, unlocked read ends
\* in that step with that pointer and changes neither slot, counter, store,
\* lock nor heap; in process scope that step is possible whoever holds the
\* Store's mutex.
C9_FastPath ==
    /\ [][\A t \in Threads :
             /\ (OpLatch(t) /\ pointer # NULL /\ LowBit(pointer) # Tag) =>
                   /\ pc'[t] = "idle" /\ ret'[t].st = "ok" /\ ret'[t].val = pointer
                   /\ UNCHANGED <<pointer, sync, heap, constructed, deleteLog>>
             /\ (FbCheck(t) /\ mSingleton # NULL) =>
                   /\ pc'[t] = "idle" /\ ret'[t].st = "ok" /\ ret'[t].val = mSingleton
                   /\ UNCHANGED <<mSingleton, mLock, heap, constructed, deleteLog>>
             /\ \A n \in Nexi :
                   (PnCheck(t, n) /\ stores[mStore[n]].mObject # NULL) =>
                      /\ pc'[t] = "idle" /\ ret'[t].st = "ok"
                      /\ ret'[t].val = stores[mStore[n]].mObject
                      /\ UNCHANGED <<stores, heap, constructed, deleteLog>>]_vars
    /\ [](\A t \in Threads, n \in Nexi :
             (/\ scope = "process" /\ Idle(t) /\ mStore[n] # 0
              /\ stores[mStore[n]].mObject # NULL) => ENABLED PnCheck(t, n))

\* a thread has returned the instance while its constructor still holds the
\* Store's mutex
C9_Witness ==
    /\ scope = "process"
    /\ \E t, u \in Threads :
          /\ t # u
          /\ pc[u] = "pn_return" /\ singleton[u] # NULL
          /\ stores[mStore[self[u]]].mLock = u
          /\ pc[t] = "idle" /\ Returned(t) /\ ret[t].val = singleton[u]

\* C10: clean module scope: what the destructor deletes is a live instance
\* held by the slot as a finished pointer; for an empty slot or a slot
\* holding the in-progress marker it deletes nothing; and after it ran the
\* instance of a finished slot is gone.
C10_TeardownOnlyFinished ==
    /\ \A i \in DOMAIN deleteLog :
          deleteLog[i].by = "teardown" => deleteLog[i].live
    /\ (scope \in ModuleScopes /\ nexusState = "destroyed" /\ Slot \in Addrs)
          => ~heap[Slot]

\* C11: every reference a call of operator() returns designates an instance
\* that has been constructed, and whose construction the returning thread is
\* sure to see: the returned word is never the empty or the tagged word, and
\* a thread that took the pointer from the unlocked first read never holds
\* an instance whose constructor's writes are still outstanding.
C11_ReturnsConstructed ==
    \A t \in Threads : Returned(t) =>
        /\ ret[t].val # NULL /\ LowBit(ret[t].val) # Tag
        /\ Entries(ret[t].val) # {}
        /\ ret[t].val \notin raw

\* C12: under fair scheduling every call of operator() that has begun comes
\* to its end (with the instance, or with the constructor's failure): a
\* caller polling a claimed slot and a caller waiting for a mutex do not wait
\* forever; and no caller that had to wait constructs an instance of its
\* own: a module slot gets at most one instance and a Store at most one.
C12_EveryCallReturns ==
    /\ \A t \in Threads : (pc[t] # "idle") ~> (pc[t] = "idle")
    /\ [](/\ scope \in ModuleScopes => Made(epoch) <= 1
          /\ scope = "process" => \A s \in Nexi : MadeFor(s) <= 1)

\* a caller waits for the Store's mutex that another caller holds
C12_Witness ==
    /\ scope = "process"
    /\ \E t, u \in Threads :
          /\ t # u /\ pc[t] = "pn_lock"
          /\ stores[mStore[self[t]]].mLock = u

Finished(w) == w # NULL /\ LowBit(w) # Tag
ResetCompletes == \E t \in Threads : ResetClear(t) \/ FbResetClear(t)
\* a slot holding a finished pointer keeps it in every step but the last
\* one of reset(); the slots of thread and process scope have no reset()
FinishedStays ==
    /\ (Finished(pointer) /\ pointer' # pointer) => ResetCompletes
    /\ (Finished(mSingleton) /\ mSingleton' # mSingleton) => ResetCompletes
    /\ \A t \in Threads : Finished(mSlot[t]) => mSlot'[t] = mSlot[t]
    /\ \A s \in Nexi :
          Finished(stores[s].mObject) => stores'[s].mObject = stores[s].mObject
\* a claimant whose construction failed gives the claimed slot back
GivenBack ==
    /\ pointer = Marker
    /\ \E t \in Threads : pc[t] = "cr_unclaim" /\ ret'[t].st = "threw"

C14_ResetEmptiesSlot ==
    [][\A t \in Threads :
          /\ ResetTest(t) =>
                IF Finished(pointer)
                THEN pc'[t] = "rs_delete"
                ELSE pc'[t] = "idle" /\ UNCHANGED <<heap, deleteLog>>
          /\ ResetDelete(t) =>
                /\ Finished(pointer) /\ heap[pointer] /\ ~heap'[pointer]
                /\ deleteLog' = Append(deleteLog,
                      [word |-> pointer, by |-> "reset", live |-> TRUE])
          /\ FbResetDelete(t) =>
                IF mSingleton # NULL
                THEN /\ heap[mSingleton] /\ ~heap'[mSingleton]
                     /\ deleteLog' = Append(deleteLog,
                           [word |-> mSingleton, by |-> "reset", live |-> TRUE])
                ELSE UNCHANGED <<heap, deleteLog>>
          /\ (ResetClear(t) \/ FbResetClear(t)
                 \/ (ResetTest(t) /\ epoch' # epoch)) =>
                /\ Slot' = NULL
                /\ \A a \in Addrs : ~heap'[a]
                /\ scope = "module" => (~exists' /\ NeedsCreate(pointer)')]_vars

\* a reset() has destroyed the instance and the slot is still empty
C14_Witness ==
    /\ scope = "module" /\ epoch = 1 /\ Quiescent
    /\ pointer = NULL
    /\ Len(deleteLog) = 1 /\ deleteLog[1].by = "reset"

LockedPcs == {"pn_recheck", "pn_store", "pn_return"}
\* C15: process scope: a Store's mutex is held only by a thread that is
\* inside operator() on that Store, past the acquisition (so with no thread
\* inside operator() every mutex is free); and a call that ends with the
\* constructor's failure leaves its Store with the mutex free and the
\* pointer still NULL.
C15_FailureReleasesMutex ==
    /\ [](scope = "process" =>
             \A s \in Nexi : stores[s].mLock # 0 =>
                 /\ stores[s].mLock \in Threads
                 /\ pc[stores[s].mLock] \in LockedPcs
                 /\ mStore[self[stores[s].mLock]] = s)
    /\ [][\A t \in Threads :
             (pc[t] = "pn_recheck" /\ pc'[t] = "idle" /\ ret'[t].st = "threw") =>
                 /\ stores[mStore[self[t]]].mLock = t
                 /\ stores'[mStore[self[t]]].mLock = 0
                 /\ stores'[mStore[self[t]]].mObject = NULL]_vars

\* on the only Store in use one call failed and a later call, of another
\* thread, constructed and returned the instance; the mutex is free
C15_Witness ==
    /\ scope = "process" /\ Quiescent
    /\ \A n \in Nexi : mStore[n] \in {0, 1}
    /\ stores[1].mLock = 0 /\ stores[1].mObject \in Addrs
    /\ \E t, u \in Threads :
          /\ ret[t].st = "threw"
          /\ Returned(u) /\ ret[u].val = stores[1].mObject

Inside(s) == {t \in Threads : pc[t] \in LockedPcs /\ mStore[self[t]] = s}
\* C16: process scope: at most one thread is between the acquisition and
\* the release of a Store's mutex, and it is the holder; and every step that
\* changes a Store's pointer is the assignment made by the holder of that
\* Store's mutex, from NULL to the instance the holder has constructed (so
\* the pointer of a Store is written at most once).
C16_WriterGate ==
    /\ [](scope = "process" =>
             \A s \in Nexi :
                 /\ Cardinality(Inside(s)) <= 1
                 /\ \A t \in Inside(s) : stores[s].mLock = t)
    /\ [][\A s \in Nexi :
             stores'[s].mObject # stores[s].mObject =>
                 /\ stores[s].mObject = NULL
                 /\ stores'[s].mObject \in Addrs
                 /\ stores[s].mLock \in Threads
                 /\ stores'[s].mLock = stores[s].mLock
                 /\ pc[stores[s].mLock] = "pn_store"
                 /\ mStore[self[stores[s].mLock]] = s
                 /\ stores'[s].mObject = singleton[stores[s].mLock]]_vars

\* the holder of the mutex has written the pointer and still holds the
\* mutex, while another thread waits for it
C16_Witness ==
    /\ scope = "process"
    /\ \E t, u \in Threads :
          /\ pc[u] = "pn_return" /\ singleton[u] \in Addrs
          /\ stores[mStore[self[u]]].mObject = singleton[u]
          /\ stores[mStore[self[u]]].mLock = u
          /\ pc[t] = "pn_lock" /\ mStore[self[t]] = mStore[self[u]]

Live(w) == w \in Addrs /\ heap[w]
Deletions(a) == Cardinality({i \in DOMAIN deleteLog : deleteLog[i].word = a})
ByTeardown == {i \in DOMAIN deleteLog : deleteLog[i].by = "teardown"}
\* the destructor, if it ran, ran while no call was under way (the threads
\* stand where they stood when it ran)
TeardownApart == Running \/ Quiescent
\* C18: module scope, reset() and the clean destructor kept apart from every
\* other call: every delete acts on a finished pointer whose instance is
\* alive at that moment (so no instance is destroyed twice, and nothing but
\* an instance the slot held is destroyed), no address is deleted more often
\* than it was constructed, and a destructor that finds the slot empty, as
\* reset() leaves it, destroys nothing.
C18_DestroyedAtMostOnce ==
    (scope \in ModuleScopes /\ TeardownApart) =>
        /\ \A i \in DOMAIN deleteLog :
              deleteLog[i].word \in Addrs /\ deleteLog[i].live
        /\ \A a \in Addrs : Deletions(a) <= Cardinality(Entries(a))
        /\ (nexusState = "destroyed" /\ Slot = NULL) => ByTeardown = {}

\* reset() has destroyed the instance and the destructor then ran on the
\* empty slot
C18_Witness ==
    /\ scope = "module" /\ Quiescent
    /\ nexusState = "destroyed" /\ epoch = 1 /\ pointer = NULL
    /\ Len(deleteLog) = 1 /\ deleteLog[1].by = "reset"

\* C19: atomic build: a call of reset() that finds the slot empty or holding
\* the tagged in-progress word ends at its test: it deletes nothing and
\* leaves the slot, the sync counter and the heap as they are.
C19_ResetNoOp ==
    [][\A t \in Threads :
          (ResetTest(t) /\ (pointer = NULL \/ LowBit(pointer) = Tag)) =>
              /\ pc'[t] = "idle"
              /\ UNCHANGED <<pointer, sync, heap, deleteLog, constructed,
                             singleton, nexusState>>]_vars

\* a reset() has completed without a delete while the slot held the marker
\* of a claimant that had already constructed its instance
C19_Witness ==
    /\ scope = "module" /\ epoch = 1
    /\ pointer = Marker
    /\ deleteLog = <<>>
    /\ Len(constructed) = 1 /\ constructed[1].epoch = 0
    /\ Live(constructed[1].addr)

====
